---- MODULE Spec2Model ----
(***************************************************************************)
(* Model of socorro/cron/jobs/archivescraper.py: the crontabber job that   *)
(* walks archive.mozilla.org and appends rows to the                       *)
(* crashstats_productversion table.                                        *)
(*                                                                         *)
(* Python strings are sequences of one-character strings, so that the      *)
(* string conversions of the job (digit extraction, split, replace,        *)
(* slicing, substring tests) are computed rather than assumed.             *)
(***************************************************************************)
EXTENDS Integers, Sequences, FiniteSets, TLC

----------------------------------------------------------------------------
(* Bounds of the model *)

\* number of runs of the job that a behaviour contains
MaxRuns == 2
\* number of inserts of a behaviour that the store fails with a non-integrity error
MaxStoreErrors == 1
\* number of fetches of a behaviour that raise a connection-level fault
MaxFaults == 1

----------------------------------------------------------------------------
(* Python string operations *)

Digits == {"0", "1", "2", "3", "4", "5", "6", "7", "8", "9"}

DigitVal(c) ==
    CASE c = "0" -> 0 [] c = "1" -> 1 [] c = "2" -> 2 [] c = "3" -> 3
      [] c = "4" -> 4 [] c = "5" -> 5 [] c = "6" -> 6 [] c = "7" -> 7
      [] c = "8" -> 8 [] c = "9" -> 9

isdigit(c) == c \in Digits

startswith(s, prefix) ==
    /\ Len(s) >= Len(prefix)
    /\ SubSeq(s, 1, Len(prefix)) = prefix

endswith(s, suffix) ==
    /\ Len(s) >= Len(suffix)
    /\ SubSeq(s, Len(s) - Len(suffix) + 1, Len(s)) = suffix

\* sub in s
contains(s, sub) ==
    \E k \in 1..(Len(s) - Len(sub) + 1) : SubSeq(s, k, k + Len(sub) - 1) = sub

\* int(s) is defined on non-empty digit strings; Python raises ValueError otherwise
IsIntLiteral(s) == s # <<>> /\ \A k \in 1..Len(s) : isdigit(s[k])

RECURSIVE int(_)
int(s) == IF s = <<>> THEN 0
          ELSE 10 * int(SubSeq(s, 1, Len(s) - 1)) + DigitVal(s[Len(s)])

\* s.split(sep) for a one-character separator
RECURSIVE split(_, _)
split(s, sep) ==
    IF \A k \in 1..Len(s) : s[k] # sep THEN <<s>>
    ELSE LET k == CHOOSE k \in 1..Len(s) :
                      s[k] = sep /\ \A m \in 1..(k - 1) : s[m] # sep
         IN  <<SubSeq(s, 1, k - 1)>> \o split(SubSeq(s, k + 1, Len(s)), sep)

\* s.replace(old, '')
RECURSIVE remove(_, _)
remove(s, old) ==
    IF s = <<>> THEN <<>>
    ELSE IF startswith(s, old) THEN remove(SubSeq(s, Len(old) + 1, Len(s)), old)
    ELSE <<s[1]>> \o remove(Tail(s), old)

\* s.rstrip(c)
RECURSIVE rstrip(_, _)
rstrip(s, c) ==
    IF s # <<>> /\ s[Len(s)] = c THEN rstrip(SubSeq(s, 1, Len(s) - 1), c) ELSE s

\* ''.join([c for c in s if c.isdigit()])
digitsOf(s) == SelectSeq(s, isdigit)

\* [x for x in seq if Test(x)] is SelectSeq; [F(x) for x in seq]:
Map(F(_), seq) == [k \in 1..Len(seq) |-> F(seq[k])]

----------------------------------------------------------------------------
(* String literals used by the job and by the archive *)

Slash == <<"/">>
s_build == <<"b", "u", "i", "l", "d">>
s_esr == <<"e", "s", "r">>
s_rc == <<"r", "c">>
s_candidates_suffix == <<"-", "c", "a", "n", "d", "i", "d", "a", "t", "e", "s">>
s_enUS == <<"e", "n", "-", "U", "S", "/">>
s_json == <<".", "j", "s", "o", "n">>
s_mozinfo == <<"m", "o", "z", "i", "n", "f", "o">>
s_test_packages == <<"t", "e", "s", "t", "_", "p", "a", "c", "k", "a", "g", "e", "s">>
s_buildhub == <<"b", "u", "i", "l", "d", "h", "u", "b">>
s_buildhub_json == s_buildhub \o s_json
s_pub == <<"/", "p", "u", "b", "/">>
s_candidates == <<"/", "c", "a", "n", "d", "i", "d", "a", "t", "e", "s", "/">>
s_releases == <<"/", "r", "e", "l", "e", "a", "s", "e", "s", "/">>
s_dot == <<".">>
s_dotdot == <<".", ".">>

\* config.base_url and its scheme-and-host part
Origin == <<"h", "t", "t", "p", "s", ":", "/", "/", "a", "r", "c", "h", "i", "v", "e", ".",
            "m", "o", "z", "i", "l", "l", "a", ".", "o", "r", "g">>
base_url == Origin \o s_pub

\* NON_PLATFORM_SUBSTRINGS without its last entry
NON_PLATFORM_SUBSTRINGS_without_update ==
    << <<"b", "e", "e", "t", "m", "o", "v", "e", "r">>,
       <<"c", "o", "n", "t", "r", "i", "b">>,
       <<"f", "u", "n", "n", "e", "l", "c", "a", "k", "e">>,
       <<"j", "s", "s", "h", "e", "l", "l">>,
       <<"l", "o", "g", "s">>,
       <<"m", "a", "r", "-", "t", "o", "o", "l", "s">>,
       <<"p", "a", "r", "t", "n", "e", "r", "-", "r", "e", "p", "a", "c", "k", "s">>,
       <<"s", "o", "u", "r", "c", "e">> >>

\* Substrings that indicate the thing is not a platform we want to traverse
NON_PLATFORM_SUBSTRINGS ==
    << <<"b", "e", "e", "t", "m", "o", "v", "e", "r">>,
       <<"c", "o", "n", "t", "r", "i", "b">>,
       <<"f", "u", "n", "n", "e", "l", "c", "a", "k", "e">>,
       <<"j", "s", "s", "h", "e", "l", "l">>,
       <<"l", "o", "g", "s">>,
       <<"m", "a", "r", "-", "t", "o", "o", "l", "s">>,
       <<"p", "a", "r", "t", "n", "e", "r", "-", "r", "e", "p", "a", "c", "k", "s">>,
       <<"s", "o", "u", "r", "c", "e">>,
       <<"u", "p", "d", "a", "t", "e">> >>

\* get_max_major_version returns None when the product has no row
None == -1

\* The three scrape_candidates calls of run(), in order
Products ==
    << [product_name |-> "Firefox",
        archive_directory |-> <<"f", "i", "r", "e", "f", "o", "x">>],
       [product_name |-> "DevEdition",
        archive_directory |-> <<"d", "e", "v", "e", "d", "i", "t", "i", "o", "n">>],
       [product_name |-> "Fennec",
        archive_directory |-> <<"m", "o", "b", "i", "l", "e">>] >>

----------------------------------------------------------------------------
(* The remote archive: a tree of directories and files served over HTTP.   *)
(* A directory is served as an HTML listing with one anchor per child, in  *)
(* the order of its children, after an anchor for the parent directory.    *)

Dir(name, children) == [name |-> name, kind |-> "dir", children |-> children, body |-> "none"]
File(name, body) == [name |-> name, kind |-> "file", children |-> <<>>, body |-> body]

\* the content '' that download returns for a response that is not a 200
EmptyContent == [kind |-> "empty"]

\* the path of the directory that contains the directory at path
ParentOf(path) ==
    LET p == SubSeq(path, 1, Len(path) - 1)
        k == CHOOSE k \in 1..Len(p) : p[k] = "/" /\ \A m \in (k + 1)..Len(p) : p[m] # "/"
    IN  SubSeq(p, 1, k)

ListingOf(path, node) ==
    [kind |-> "html",
     anchors |-> << [href |-> ParentOf(path), text |-> s_dotdot] >> \o
                 [k \in 1..Len(node.children) |->
                    LET c == node.children[k]
                        label == IF c.kind = "dir" THEN c.name \o Slash ELSE c.name
                    IN  [href |-> path \o label, text |-> label]]]

\* the node that the segments of a path lead to from a directory node
RECURSIVE Resolve(_, _)
Resolve(node, segs) ==
    IF segs = <<>> THEN <<node>>
    ELSE IF node.kind # "dir" THEN <<>>
    ELSE LET hits == SelectSeq(node.children, LAMBDA c : c.name = Head(segs))
         IN  IF hits = <<>> THEN <<>> ELSE Resolve(hits[1], Tail(segs))

\* session.get(url): the response of the archive for a url
ServerGet(root, url) ==
    IF ~startswith(url, Origin \o Slash) THEN [status_code |-> 404, content |-> EmptyContent]
    ELSE LET path == SubSeq(url, Len(Origin) + 1, Len(url))
             segs == SelectSeq(split(path, "/"), LAMBDA seg : seg # <<>>)
             found == Resolve(root, segs)
         IN  IF found = <<>> THEN [status_code |-> 404, content |-> EmptyContent]
             ELSE IF found[1].kind = "dir"
                  THEN [status_code |-> 200, content |-> ListingOf(path, found[1])]
                  ELSE IF found[1].body.kind = "gone"
                  THEN [status_code |-> 404, content |-> EmptyContent]
                  ELSE [status_code |-> 200, content |-> found[1].body]

\* urljoin(base_url, url_path) for a base that ends with "/"
urljoin(base, url_path) ==
    IF startswith(url_path, Slash) THEN Origin \o url_path ELSE base \o url_path

download(root, url_path) ==
    LET url == urljoin(base_url, url_path)
        resp == ServerGet(root, url)
    IN  IF resp.status_code # 200 THEN EmptyContent ELSE resp.content

get_links(content) ==
    IF content.kind # "html" THEN <<>>
    ELSE Map(LAMBDA elem : [path |-> elem.href, text |-> elem.text],
             SelectSeq(content.anchors,
                       LAMBDA elem : /\ elem.href # <<>>
                                     /\ elem.text # <<>>
                                     /\ elem.text \notin {s_dot, s_dotdot}))

----------------------------------------------------------------------------
(* The catalog store (table crashstats_productversion) *)

\* the key that the table declares unique
KeyOf(row) == <<row.product_name, row.release_channel, row.version_string>>

\* the INSERT would violate the unique constraint of the table
UniqueViolation(cat, row) == \E r \in cat : KeyOf(r) = KeyOf(row)

Max(S) == CHOOSE m \in S : \A n \in S : n <= m

\* get_max_major_version without the WHERE clause on the product name
get_max_major_version_any_product(cat, product_name) ==
    LET data == {r.major_version : r \in cat}
    IN  IF data = {} THEN None ELSE Max(data)

get_max_major_version(cat, product_name) ==
    LET data == {r.major_version : r \in {q \in cat : q.product_name = product_name}}
    IN  IF data = {} THEN None ELSE Max(data)

\* insert_build with an upsert: a uniqueness violation replaces the stored row
insert_build_upsert(cat, count, params, storeFails) ==
    IF storeFails
    THEN [catalog |-> cat, successful_inserts |-> count, outcome |-> "error"]
    ELSE IF UniqueViolation(cat, params)
    THEN [catalog |-> {r \in cat : KeyOf(r) # KeyOf(params)} \cup {params},
          successful_inserts |-> count, outcome |-> "duplicate"]
    ELSE [catalog |-> cat \cup {params}, successful_inserts |-> count + 1,
          outcome |-> "inserted"]

\* insert_build with the counter incremented although the store raised an error
insert_build_counting_errors(cat, count, params, storeFails) ==
    IF storeFails
    THEN [catalog |-> cat, successful_inserts |-> count + 1, outcome |-> "error"]
    ELSE IF UniqueViolation(cat, params)
    THEN [catalog |-> cat, successful_inserts |-> count, outcome |-> "duplicate"]
    ELSE [catalog |-> cat \cup {params}, successful_inserts |-> count + 1,
          outcome |-> "inserted"]

\* insert_build with the counter incremented before the statement is executed
\* although a uniqueness violation follows
insert_build_counting_duplicates(cat, count, params, storeFails) ==
    IF storeFails
    THEN [catalog |-> cat, successful_inserts |-> count, outcome |-> "error"]
    ELSE IF UniqueViolation(cat, params)
    THEN [catalog |-> cat, successful_inserts |-> count + 1, outcome |-> "duplicate"]
    ELSE [catalog |-> cat \cup {params}, successful_inserts |-> count + 1,
          outcome |-> "inserted"]

\* insert_build whose transaction is never committed: the call counts as a
\* success and the row does not reach the table
insert_build_without_commit(cat, count, params, storeFails) ==
    IF storeFails
    THEN [catalog |-> cat, successful_inserts |-> count, outcome |-> "error"]
    ELSE IF UniqueViolation(cat, params)
    THEN [catalog |-> cat, successful_inserts |-> count, outcome |-> "duplicate"]
    ELSE [catalog |-> cat, successful_inserts |-> count + 1, outcome |-> "inserted"]

\* One call of insert_build. storeFails: the store raises a psycopg2.Error
\* that is not an IntegrityError.
insert_build(cat, count, params, storeFails) ==
    IF storeFails
    THEN [catalog |-> cat, successful_inserts |-> count, outcome |-> "error"]
    ELSE IF UniqueViolation(cat, params)
    THEN [catalog |-> cat, successful_inserts |-> count, outcome |-> "duplicate"]
    ELSE [catalog |-> cat \cup {params}, successful_inserts |-> count + 1,
          outcome |-> "inserted"]

\* the insert_build calls for one descriptor with a store error that leaves the
\* remaining calls for the descriptor unmade
RECURSIVE InsertAll(_, _, _, _)
InsertAll_stopping_at_error(cat, count, rows, fails) ==
    IF rows = <<>>
    THEN [catalog |-> cat, successful_inserts |-> count, outcomes |-> <<>>]
    ELSE LET first == insert_build(cat, count, Head(rows), Head(fails))
             rest == IF first.outcome = "error"
                     THEN [catalog |-> first.catalog,
                           successful_inserts |-> first.successful_inserts,
                           outcomes |-> <<>>]
                     ELSE InsertAll(first.catalog, first.successful_inserts,
                                    Tail(rows), Tail(fails))
         IN  [catalog |-> rest.catalog,
              successful_inserts |-> rest.successful_inserts,
              outcomes |-> <<first.outcome>> \o rest.outcomes]

\* the insert_build calls that scrape_candidates makes for one descriptor, in order
InsertAll(cat, count, rows, fails) ==
    IF rows = <<>>
    THEN [catalog |-> cat, successful_inserts |-> count, outcomes |-> <<>>]
    ELSE LET first == insert_build(cat, count, Head(rows), Head(fails))
             rest == InsertAll(first.catalog, first.successful_inserts,
                               Tail(rows), Tail(fails))
         IN  [catalog |-> rest.catalog,
              successful_inserts |-> rest.successful_inserts,
              outcomes |-> <<first.outcome>> \o rest.outcomes]

----------------------------------------------------------------------------
(* The pure parts of the walk *)

\* a key that orders the links as the text of their digits orders them
\* ("build10/" before "build2/")
key_for_build_link_as_text(link) ==
    LET d == digitsOf(link.path)
        padded == d \o [k \in 1..(6 - Len(d)) |-> "0"]
    IN  10 * int(padded) + Len(d)

key_for_build_link(link) == int(digitsOf(link.path))

\* list.sort(key=...): a stable sort, ascending by key
RECURSIVE InsertByKey(_, _)
InsertByKey(sorted, link) ==
    IF sorted = <<>> THEN <<link>>
    ELSE IF key_for_build_link(sorted[Len(sorted)]) <= key_for_build_link(link)
    THEN Append(sorted, link)
    ELSE Append(InsertByKey(SubSeq(sorted, 1, Len(sorted) - 1), link), sorted[Len(sorted)])

RECURSIVE sort_build_links(_)
sort_build_links(links) ==
    IF links = <<>> THEN <<>>
    ELSE InsertByKey(sort_build_links(SubSeq(links, 1, Len(links) - 1)), links[Len(links)])

is_non_platform(directory_link) ==
    \E k \in 1..Len(NON_PLATFORM_SUBSTRINGS) :
        contains(directory_link, NON_PLATFORM_SUBSTRINGS[k])

\* platform_json_links without the preference for a buildhub.json link
platform_json_links_first_json(root, directory_link) ==
    LET locale_contents == download(root, directory_link \o s_enUS)
        json_links == Map(LAMBDA link : link.path,
                          SelectSeq(get_links(locale_contents),
                                    LAMBDA link : /\ endswith(link.path, s_json)
                                                  /\ ~contains(link.path, s_mozinfo)
                                                  /\ ~contains(link.path, s_test_packages)))
    IN  IF locale_contents.kind = "empty" THEN <<>>
        ELSE IF json_links # <<>> THEN <<json_links[1]>>
        ELSE <<>>

\* the link that one platform directory contributes to all_json_links, as a
\* sequence of length 0 or 1
platform_json_links(root, directory_link) ==
    LET locale_contents == download(root, directory_link \o s_enUS)
        json_links == Map(LAMBDA link : link.path,
                          SelectSeq(get_links(locale_contents),
                                    LAMBDA link : /\ endswith(link.path, s_json)
                                                  /\ ~contains(link.path, s_mozinfo)
                                                  /\ ~contains(link.path, s_test_packages)))
        buildhub_links == SelectSeq(json_links, LAMBDA link : endswith(link, s_buildhub_json))
    IN  IF locale_contents.kind = "empty" THEN <<>>
        ELSE IF buildhub_links # <<>> THEN <<buildhub_links[1]>>
        ELSE IF json_links # <<>> THEN <<json_links[1]>>
        ELSE <<>>

RECURSIVE collect_json_links(_, _)
collect_json_links(root, directory_links) ==
    IF directory_links = <<>> THEN <<>>
    ELSE (IF is_non_platform(Head(directory_links)) THEN <<>>
          ELSE platform_json_links(root, Head(directory_links)))
         \o collect_json_links(root, Tail(directory_links))

get_json_links(root, path) ==
    LET build_contents == download(root, path)
        directory_links == Map(LAMBDA link : link.path,
                               SelectSeq(get_links(build_contents),
                                         LAMBDA link : endswith(link.text, Slash)))
    IN  collect_json_links(root, directory_links)

\* json.loads(json_file) and the key lookups of the branch that the link selects
\* raise (ValueError, KeyError) on a body that is not the expected JSON object
parse_raises(json_link, json_file) ==
    IF json_file.kind # "json" THEN TRUE
    ELSE LET doc == json_file.doc
         IN  IF contains(json_link, s_buildhub)
             THEN \/ "target" \notin DOMAIN doc
                  \/ "build" \notin DOMAIN doc
                  \/ {"channel", "version"} \ DOMAIN doc.target # {}
                  \/ "id" \notin DOMAIN doc.build
                  \/ ~IsIntLiteral(split(doc.target.version, ".")[1])
             ELSE \/ {"moz_update_channel", "moz_app_version", "buildid"} \ DOMAIN doc # {}
                  \/ ~IsIntLiteral(split(doc.moz_app_version, ".")[1])

\* parse_build_info with the link of the descriptor as archive_url, not joined
\* with the base url
parse_build_info_relative_url(product_name, json_link, json_file) ==
    LET doc == json_file.doc
    IN  IF contains(json_link, s_buildhub)
        THEN [product_name |-> product_name,
              release_channel |-> doc.target.channel,
              major_version |-> int(split(doc.target.version, ".")[1]),
              release_version |-> doc.target.version,
              build_id |-> doc.build.id,
              archive_url |-> json_link]
        ELSE [product_name |-> product_name,
              release_channel |-> doc.moz_update_channel,
              major_version |-> int(split(doc.moz_app_version, ".")[1]),
              release_version |-> doc.moz_app_version,
              build_id |-> doc.buildid,
              archive_url |-> json_link]

\* the dict "data" that scrape_candidates builds from a descriptor
parse_build_info(product_name, json_link, json_file) ==
    LET doc == json_file.doc
    IN  IF contains(json_link, s_buildhub)
        THEN [product_name |-> product_name,
              release_channel |-> doc.target.channel,
              major_version |-> int(split(doc.target.version, ".")[1]),
              release_version |-> doc.target.version,
              build_id |-> doc.build.id,
              archive_url |-> urljoin(base_url, json_link)]
        ELSE [product_name |-> product_name,
              release_channel |-> doc.moz_update_channel,
              major_version |-> int(split(doc.moz_app_version, ".")[1]),
              release_version |-> doc.moz_app_version,
              build_id |-> doc.buildid,
              archive_url |-> urljoin(base_url, json_link)]

\* data with data['release_channel'] and data['version_string'] set
Params(data, channel, version_string) ==
    [product_name |-> data.product_name,
     release_channel |-> channel,
     major_version |-> data.major_version,
     release_version |-> data.release_version,
     version_string |-> version_string,
     build_id |-> data.build_id,
     archive_url |-> data.archive_url]

\* version_root + 'rc' + build_link['text'][5:-1]
rc_version_string_of(version_root, build_text) ==
    version_root \o s_rc \o SubSeq(build_text, 6, Len(build_text) - 1)

\* build_rows with the channels of the two rows of a final release build exchanged
build_rows_channels_exchanged(data, version_root, rc_version_string, final_build) ==
    IF final_build
    THEN IF data.release_channel = "release"
         THEN << Params(data, "release", rc_version_string),
                 Params(data, "beta", version_root) >>
         ELSE << Params(data, data.release_channel, version_root),
                 Params(data, data.release_channel, rc_version_string) >>
    ELSE IF data.release_channel = "release"
         THEN << Params(data, "beta", rc_version_string) >>
         ELSE << Params(data, data.release_channel, rc_version_string) >>

\* build_rows without the forcing of a release build that is not final to beta
build_rows_release_not_forced(data, version_root, rc_version_string, final_build) ==
    IF final_build
    THEN IF data.release_channel = "release"
         THEN << Params(data, "beta", rc_version_string),
                 Params(data, "release", version_root) >>
         ELSE << Params(data, data.release_channel, version_root),
                 Params(data, data.release_channel, rc_version_string) >>
    ELSE << Params(data, data.release_channel, rc_version_string) >>

\* build_rows without the rc row of a final build of another channel
build_rows_final_without_rc(data, version_root, rc_version_string, final_build) ==
    IF final_build
    THEN IF data.release_channel = "release"
         THEN << Params(data, "beta", rc_version_string),
                 Params(data, "release", version_root) >>
         ELSE << Params(data, data.release_channel, version_root) >>
    ELSE IF data.release_channel = "release"
         THEN << Params(data, "beta", rc_version_string) >>
         ELSE << Params(data, data.release_channel, rc_version_string) >>

\* build_rows that keeps the release channel for the rc row of a final release
\* build
build_rows_rc_row_in_release(data, version_root, rc_version_string, final_build) ==
    IF final_build
    THEN IF data.release_channel = "release"
         THEN << Params(data, "release", rc_version_string),
                 Params(data, "release", version_root) >>
         ELSE << Params(data, data.release_channel, version_root),
                 Params(data, data.release_channel, rc_version_string) >>
    ELSE IF data.release_channel = "release"
         THEN << Params(data, "beta", rc_version_string) >>
         ELSE << Params(data, data.release_channel, rc_version_string) >>

\* the arguments of the insert_build calls for one descriptor, in call order
build_rows(data, version_root, rc_version_string, final_build) ==
    IF final_build
    THEN IF data.release_channel = "release"
         THEN << Params(data, "beta", rc_version_string),
                 Params(data, "release", version_root) >>
         ELSE << Params(data, data.release_channel, version_root),
                 Params(data, data.release_channel, rc_version_string) >>
    ELSE IF data.release_channel = "release"
         THEN << Params(data, "beta", rc_version_string) >>
         ELSE << Params(data, data.release_channel, rc_version_string) >>

\* final_build without the test of the position of the build
final_build_of_any_position(pos, links, final_release) == final_release

\* final_build of scrape_candidates, for the build at position i (from 0)
final_build_of(pos, links, final_release) ==
    (pos + 1 = Len(links)) /\ final_release

\* final_releases of scrape_candidates
final_releases_of(root, archive_directory) ==
    LET release_path == s_pub \o archive_directory \o s_releases
        release_path_content == download(root, release_path)
    IN  Map(LAMBDA link : rstrip(link.text, "/"),
            SelectSeq(get_links(release_path_content),
                      LAMBDA link : isdigit(link.text[1])))

\* version_links of scrape_candidates before the watermark filter
candidate_links_of(root, archive_directory) ==
    LET url_path == s_pub \o archive_directory \o s_candidates
        content == download(root, url_path)
    IN  SelectSeq(get_links(content), LAMBDA link : isdigit(link.text[1]))

\* "if major_version:"
has_watermark(major_version) == major_version # None /\ major_version # 0

\* the watermark filter with "greater than" for "greater than or equal to"
keep_version_strict(link, major_version) ==
    LET major_version_minus_4 == major_version - 4
    IN  \/ int(split(link.text, ".")[1]) > major_version_minus_4
        \/ contains(link.text, s_esr)

\* the condition of the watermark filter for one link
keep_version(link, major_version) ==
    LET major_version_minus_4 == major_version - 4
    IN  \/ int(split(link.text, ".")[1]) >= major_version_minus_4
        \/ contains(link.text, s_esr)

\* int(link['text'].split('.')[0]) raises ValueError
watermark_filter_raises(links) ==
    \E k \in 1..Len(links) : ~IsIntLiteral(split(links[k].text, ".")[1])

filter_versions(links, major_version) ==
    IF has_watermark(major_version)
    THEN SelectSeq(links, LAMBDA link : keep_version(link, major_version))
    ELSE links

\* build_links of one candidate version before the sort
build_links_of(root, link) ==
    SelectSeq(get_links(download(root, link.path)),
              LAMBDA build_link : startswith(build_link.text, s_build))

\* link['path'].split('/')[4].replace('-candidates', '')
version_root_of(link) == remove(split(link.path, "/")[5], s_candidates_suffix)

\* split('/')[4] raises IndexError, or int('') raises ValueError in the sort key
version_step_raises(root, link) ==
    \/ Len(split(link.path, "/")) < 5
    \/ LET links == build_links_of(root, link)
       IN  \E k \in 1..Len(links) : digitsOf(links[k].path) = <<>>

----------------------------------------------------------------------------
(* The archives that the job is run against *)

v63 == <<"6", "3", ".", "0">>
v59b1 == <<"5", "9", ".", "0", "b", "1">>
v58b1 == <<"5", "8", ".", "0", "b", "1">>
v59 == <<"5", "9", ".", "0">>
v58 == <<"5", "8", ".", "0">>
v52esr == <<"5", "2", ".", "0", "e", "s", "r">>
v52 == <<"5", "2", ".", "0">>
v64b1 == <<"6", "4", ".", "0", "b", "1">>
v64 == <<"6", "4", ".", "0">>

\* str(n) for the build ordinals of the archives
NumStr(n) ==
    CASE n = 1 -> <<"1">> [] n = 2 -> <<"2">> [] n = 3 -> <<"3">> [] n = 10 -> <<"1", "0">>

BuildhubDoc(channel, version, id) ==
    [kind |-> "json",
     doc |-> [target |-> [channel |-> channel, version |-> version],
              build |-> [id |-> id]]]

LegacyDoc(channel, version, id) ==
    [kind |-> "json",
     doc |-> [moz_update_channel |-> channel, moz_app_version |-> version, buildid |-> id]]

\* a legacy descriptor without the key buildid
LegacyDocWithoutBuildid(channel, version) ==
    [kind |-> "json",
     doc |-> [moz_update_channel |-> channel, moz_app_version |-> version]]

\* a body that is not JSON
GarbageBody == [kind |-> "text"]

\* the body of a file that is listed but that the archive does not serve
GoneBody == [kind |-> "gone"]

f_legacy == <<"f", "i", "r", "e", "f", "o", "x", "-", "i", "n", "f", "o">> \o s_json
f_mozinfo == <<"f", "x", ".">> \o s_mozinfo \o s_json
f_tarball == <<"f", "x", ".", "t", "a", "r">>
f_test_packages == <<"f", "x", ".">> \o s_test_packages \o s_json
f_buildhub_info == s_buildhub \o <<"-", "i", "n", "f", "o">> \o s_json

\* a platform directory whose en-US directory holds the given files
Platform(name, files) == Dir(name, <<Dir(<<"e", "n", "-", "U", "S">>, files)>>)

p_mac == <<"m", "a", "c">>
p_linux == <<"l", "i", "n", "u", "x", "-", "i", "6", "8", "6">>
p_win32 == <<"w", "i", "n", "3", "2">>
p_partner == <<"p", "a", "r", "t", "n", "e", "r", "-", "r", "e", "p", "a", "c", "k", "s">>
f_sums == <<"S", "H", "A", "2", "5", "6", "S", "U", "M", "S">>

\* directories of a build directory that are not platforms
NonPlatformDirs ==
    << <<"b", "e", "e", "t", "m", "o", "v", "e", "r", "-", "c", "h", "e", "c", "k", "s", "u", "m", "s">>,
       <<"c", "o", "n", "t", "r", "i", "b">>,
       <<"f", "u", "n", "n", "e", "l", "c", "a", "k", "e">>,
       <<"j", "s", "s", "h", "e", "l", "l">>,
       <<"l", "o", "g", "s">>,
       <<"m", "a", "r", "-", "t", "o", "o", "l", "s">>,
       p_partner,
       <<"s", "o", "u", "r", "c", "e">>,
       <<"u", "p", "d", "a", "t", "e">> >>

\* the build id that the archives give to the descriptor of a platform of a build
IdOf(plat, n) == <<plat, n>>

\* The layouts of the platform level of a build directory
Layouts == {"one", "three", "none", "garbage", "gone", "nofield", "excluded", "nonplatform",
            "mixed"}

PlatformsOf(layout, channel, version, n) ==
    CASE layout = "one" ->
           << File(f_sums, GarbageBody),
              Platform(p_linux, << File(f_tarball, GarbageBody),
                                   File(f_mozinfo, GarbageBody),
                                   File(f_legacy, LegacyDoc(channel, version, IdOf("linux", n))) >>) >>
      [] layout = "three" ->
           << Dir(p_mac, <<>>),
              Platform(p_partner, << File(s_buildhub_json,
                                          BuildhubDoc(channel, version, IdOf("partner", n))) >>),
              Platform(p_linux, << File(f_legacy, LegacyDoc(channel, version, IdOf("linux", n))),
                                   File(s_buildhub_json,
                                        BuildhubDoc(channel, version, IdOf("linux", n))) >>),
              Platform(p_win32, << File(s_buildhub_json,
                                        BuildhubDoc(channel, version, IdOf("win32", n))) >>) >>
      [] layout = "none" ->
           << Dir(p_mac, <<>>),
              Platform(p_linux, << File(f_tarball, GarbageBody),
                                   File(f_mozinfo, GarbageBody) >>) >>
      [] layout = "garbage" ->
           << Platform(p_linux, << File(f_legacy, GarbageBody) >>) >>
      [] layout = "gone" ->
           << Platform(p_linux, << File(f_legacy, GoneBody) >>) >>
      [] layout = "nofield" ->
           << Platform(p_linux, << File(f_legacy, LegacyDocWithoutBuildid(channel, version)) >>) >>
      [] layout = "excluded" ->
           [k \in 1..Len(NonPlatformDirs) |->
              Platform(NonPlatformDirs[k],
                       << File(s_buildhub_json,
                               BuildhubDoc(channel, version, IdOf("excluded", n))) >>)]
           \o << File(f_sums, GarbageBody),
                 Platform(p_linux, << File(f_legacy,
                                           LegacyDoc(channel, version, IdOf("linux", n))) >>) >>
      [] layout = "nonplatform" ->
           << File(f_sums, GarbageBody),
              Platform(p_partner, << File(s_buildhub_json,
                                          BuildhubDoc(channel, version, IdOf("partner", n))) >>) >>
      [] layout = "mixed" ->
           << Platform(p_linux, << File(f_tarball, GarbageBody),
                                   File(f_test_packages, GarbageBody),
                                   File(f_mozinfo, GarbageBody),
                                   File(f_buildhub_info,
                                        BuildhubDoc(channel, version, IdOf("info", n))),
                                   File(f_legacy,
                                        LegacyDoc(channel, version, IdOf("linux", n))) >>),
              Platform(p_win32, << File(f_test_packages, GarbageBody),
                                   File(f_legacy,
                                        LegacyDoc(channel, version, IdOf("win32", n))),
                                   File(f_mozinfo, GarbageBody) >>),
              Platform(p_mac, << File(f_legacy, LegacyDoc(channel, version, IdOf("mac", n))),
                                 File(f_mozinfo, GarbageBody),
                                 File(s_buildhub_json,
                                      BuildhubDoc(channel, version, IdOf("mac", n))) >>) >>

BuildDir(n, platforms) == Dir(s_build \o NumStr(n), platforms)

\* a candidate version whose build directories are listed in the given order;
\* the build with the greatest ordinal has the layout lastLayout
VersionDir(label, order, channel, version, lastLayout) ==
    LET greatest == Max({order[k] : k \in 1..Len(order)})
    IN  Dir(label \o s_candidates_suffix,
            [k \in 1..Len(order) |->
               BuildDir(order[k],
                        PlatformsOf(IF order[k] = greatest THEN lastLayout ELSE "one",
                                    channel, version, order[k]))])

ProductDir(name, released, versions) ==
    Dir(name, << Dir(<<"c", "a", "n", "d", "i", "d", "a", "t", "e", "s">>, versions),
                 Dir(<<"n", "i", "g", "h", "t", "l", "y">>, <<>>),
                 Dir(<<"r", "e", "l", "e", "a", "s", "e", "s">>,
                     [k \in 1..Len(released) |-> Dir(released[k], <<>>)]) >>)

\* the old trains of Firefox: an esr train and two beta trains
OldTrains ==
    << VersionDir(v52esr, <<1>>, "esr", v52, "one"),
       VersionDir(v58b1, <<1>>, "beta", v58, "one"),
       VersionDir(v59b1, <<1>>, "beta", v59, "one") >>

\* /pub/mobile/ has one beta train; /pub/devedition/ does not exist
MobileDir ==
    ProductDir(Products[3].archive_directory, <<>>,
               << VersionDir(v64b1, <<1>>, "beta", v64, "one") >>)

ArchiveOf(order, channel, shipped, lastLayout, old) ==
    Dir(<<>>,
        << Dir(<<"p", "u", "b">>,
               << ProductDir(Products[1].archive_directory,
                             IF shipped THEN <<v58b1, v63>> ELSE <<v58b1>>,
                             (IF old THEN OldTrains ELSE <<>>) \o
                             << VersionDir(v63, order, channel, v63, lastLayout) >>),
                  MobileDir >>) >>)

\* listing orders of the build directories of the 63.0 train
BuildOrders ==
    { <<1>>, <<1, 2>>, <<2, 1>>,
      <<1, 2, 10>>, <<1, 10, 2>>, <<2, 1, 10>>, <<2, 10, 1>>, <<10, 1, 2>>, <<10, 2, 1>> }

Archives ==
    { ArchiveOf(order, channel, shipped, "one", FALSE) :
        order \in BuildOrders, channel \in {"release", "beta"}, shipped \in BOOLEAN }
    \cup
    { ArchiveOf(<<1, 2>>, channel, shipped, layout, FALSE) :
        channel \in {"release", "beta"}, shipped \in BOOLEAN, layout \in Layouts }
    \cup
    { ArchiveOf(<<1>>, channel, shipped, "one", TRUE) :
        channel \in {"release", "beta"}, shipped \in BOOLEAN }

----------------------------------------------------------------------------
(* The state of the job and of its environment *)

VARIABLES
    archive,             \* the remote tree
    catalog,             \* the rows of crashstats_productversion
    successful_inserts,  \* self.successful_inserts
    pc,                  \* position of the job: idle, scrape, versions, builds, jsons,
                         \* done (run returned), aborted (an exception left run)
    product,             \* index in Products of the scrape_candidates call
    major_version,       \* locals of scrape_candidates ...
    final_releases,
    version_links,
    vi,                  \* position of "for link in version_links", from 1
    version_root,
    is_final_release,
    build_links,
    i,                   \* position of "for i, build_link in enumerate(build_links)", from 0
    json_links,
    j,                   \* position of "for json_link in json_links", from 1
    run_no,              \* number of runs started
    attempts,            \* history: the descriptors that this run has written, in order
    fetched,             \* history: the url paths that this run has downloaded
    watermarks,          \* history: the watermarks that this run has read, by product
    prev_watermarks,     \* history: the watermarks that the previous run has read
    raised,              \* history: the exception that left this run, "none" if none
    catalog0,            \* history: the catalog when this run started
    run_errors,          \* history: store errors of this run
    prev_clean,          \* history: the previous run returned and had no store error
    store_errors,        \* history: store errors of all runs
    faults               \* history: connection faults of all runs

locals == <<major_version, final_releases, version_links, vi, version_root,
            is_final_release, build_links, i, json_links, j>>
history == <<attempts, fetched, watermarks, prev_watermarks, raised, catalog0, run_errors,
             prev_clean, store_errors, faults>>
vars == <<archive, catalog, successful_inserts, pc, product, locals, run_no, history>>

NoVersion ==
    /\ version_root' = <<>>
    /\ is_final_release' = FALSE
    /\ build_links' = <<>>
    /\ i' = 0

NoBuild ==
    /\ json_links' = <<>>
    /\ j' = 0

NoProduct ==
    /\ major_version' = None
    /\ final_releases' = <<>>
    /\ version_links' = <<>>
    /\ vi' = 0

Init ==
    /\ archive \in Archives
    /\ catalog = {}
    /\ successful_inserts = 0
    /\ pc = "idle"
    /\ product = 0
    /\ major_version = None
    /\ final_releases = <<>>
    /\ version_links = <<>>
    /\ vi = 0
    /\ version_root = <<>>
    /\ is_final_release = FALSE
    /\ build_links = <<>>
    /\ i = 0
    /\ json_links = <<>>
    /\ j = 0
    /\ run_no = 0
    /\ attempts = <<>>
    /\ fetched = {}
    /\ watermarks = <<>>
    /\ prev_watermarks = <<>>
    /\ raised = "none"
    /\ catalog0 = {}
    /\ run_errors = 0
    /\ prev_clean = FALSE
    /\ store_errors = 0
    /\ faults = 0

\* an exception leaves scrape_candidates and run
Raise ==
    /\ pc' = "aborted"
    /\ product' = 0
    /\ NoProduct /\ NoVersion /\ NoBuild

\* The scheduler constructs the app and calls run: __init__ and the entry of run
StartRun ==
    /\ pc \in {"idle", "done", "aborted"}
    /\ run_no < MaxRuns
    /\ run_no' = run_no + 1
    /\ successful_inserts' = 0
    /\ pc' = "scrape"
    /\ product' = 1
    /\ attempts' = <<>>
    /\ fetched' = {}
    /\ watermarks' = <<>>
    /\ prev_watermarks' = watermarks
    /\ raised' = "none"
    /\ catalog0' = catalog
    /\ run_errors' = 0
    /\ prev_clean' = (pc = "done" /\ run_errors = 0)
    /\ UNCHANGED <<archive, catalog, locals, store_errors, faults>>

\* scrape_candidates up to the loop over the versions
ScrapeCandidates ==
    /\ pc = "scrape"
    /\ LET product_name == Products[product].product_name
           archive_directory == Products[product].archive_directory
           watermark == get_max_major_version(catalog, product_name)
           links == candidate_links_of(archive, archive_directory)
       IN  /\ fetched' = fetched \cup {s_pub \o archive_directory \o s_releases,
                                       s_pub \o archive_directory \o s_candidates}
           /\ watermarks' = Append(watermarks, watermark)
           /\ IF has_watermark(watermark) /\ watermark_filter_raises(links)
              THEN Raise /\ raised' = "ValueError"
              ELSE /\ major_version' = watermark
                   /\ UNCHANGED raised
                   /\ final_releases' = final_releases_of(archive, archive_directory)
                   /\ version_links' = filter_versions(links, watermark)
                   /\ vi' = 1
                   /\ pc' = "versions"
                   /\ NoVersion /\ NoBuild
                   /\ UNCHANGED product
    /\ UNCHANGED <<archive, catalog, successful_inserts, run_no, attempts, prev_watermarks,
                   catalog0, run_errors, prev_clean, store_errors, faults>>

\* one iteration of the loop over the versions, up to the loop over the builds
VersionStep ==
    /\ pc = "versions"
    /\ vi <= Len(version_links)
    /\ LET link == version_links[vi]
       IN  /\ fetched' = fetched \cup {link.path}
           /\ IF version_step_raises(archive, link)
              THEN Raise /\ raised' = "IndexError"
              ELSE /\ UNCHANGED raised
                   /\ version_root' = version_root_of(link)
                   /\ is_final_release' =
                        (\E k \in 1..Len(final_releases) :
                            final_releases[k] = version_root_of(link))
                   /\ build_links' = sort_build_links(build_links_of(archive, link))
                   /\ i' = 0
                   /\ pc' = "builds"
                   /\ NoBuild
                   /\ UNCHANGED <<product, major_version, final_releases, version_links, vi>>
    /\ UNCHANGED <<archive, catalog, successful_inserts, run_no, attempts, watermarks,
                   prev_watermarks, catalog0, run_errors, prev_clean, store_errors, faults>>

\* the url paths that get_json_links downloads for a build directory
json_links_fetches(root, path) ==
    LET directory_links == Map(LAMBDA link : link.path,
                               SelectSeq(get_links(download(root, path)),
                                         LAMBDA link : endswith(link.text, Slash)))
        probed == SelectSeq(directory_links, LAMBDA d : ~is_non_platform(d))
    IN  {path} \cup {probed[k] \o s_enUS : k \in 1..Len(probed)}

\* BuildStep that takes the first json link of the build without the test for
\* an empty list, so that a build without descriptor raises IndexError
BuildStep_without_empty_test ==
    /\ pc = "builds"
    /\ i < Len(build_links)
    /\ LET build_link == build_links[i + 1]
           links == get_json_links(archive, build_link.path)
       IN  /\ fetched' = fetched \cup json_links_fetches(archive, build_link.path)
           /\ IF links = <<>>
              THEN /\ Raise
                   /\ raised' = "IndexError"
              ELSE /\ json_links' = links
                   /\ j' = 1
                   /\ pc' = "jsons"
                   /\ UNCHANGED <<product, major_version, final_releases, version_links, vi,
                                  version_root, is_final_release, build_links, i, raised>>
    /\ UNCHANGED <<archive, catalog, successful_inserts, run_no, attempts, watermarks,
                   prev_watermarks, catalog0, run_errors, prev_clean, store_errors, faults>>

\* one iteration of the loop over the builds, up to the loop over the json links
BuildStep ==
    /\ pc = "builds"
    /\ i < Len(build_links)
    /\ LET build_link == build_links[i + 1]
           links == get_json_links(archive, build_link.path)
       IN  /\ fetched' = fetched \cup json_links_fetches(archive, build_link.path)
           /\ IF links = <<>>
              THEN /\ i' = i + 1
                   /\ UNCHANGED <<pc, json_links, j>>
              ELSE /\ json_links' = links
                   /\ j' = 1
                   /\ pc' = "jsons"
                   /\ UNCHANGED i
    /\ UNCHANGED <<archive, catalog, successful_inserts, product, major_version,
                   final_releases, version_links, vi, version_root, is_final_release,
                   build_links, run_no, attempts, watermarks, prev_watermarks, raised,
                   catalog0, run_errors, prev_clean, store_errors, faults>>

\* the number of TRUE entries of a sequence of booleans
CountTrue(fails) == Cardinality({k \in 1..Len(fails) : fails[k]})

\* one iteration of the loop over the json links: parse the descriptor and
\* insert its rows
JsonStep ==
    /\ pc = "jsons"
    /\ j <= Len(json_links)
    /\ LET json_link == json_links[j]
           json_file == download(archive, json_link)
           build_link == build_links[i + 1]
       IN  /\ fetched' = fetched \cup {json_link}
           /\ IF parse_raises(json_link, json_file)
              THEN /\ Raise
                   /\ raised' = IF json_file.kind = "json" THEN "KeyError" ELSE "ValueError"
                   /\ UNCHANGED <<catalog, successful_inserts, attempts, run_errors,
                                  store_errors>>
              ELSE LET data == parse_build_info(Products[product].product_name,
                                                json_link, json_file)
                       rc_version_string == rc_version_string_of(version_root, build_link.text)
                       final_build == final_build_of(i, build_links, is_final_release)
                       rows == build_rows(data, version_root, rc_version_string, final_build)
                   IN  \E fails \in [1..Len(rows) -> BOOLEAN] :
                         /\ store_errors + CountTrue(fails) <= MaxStoreErrors
                         /\ LET result == InsertAll(catalog, successful_inserts, rows, fails)
                            IN  /\ catalog' = result.catalog
                                /\ successful_inserts' = result.successful_inserts
                                /\ attempts' = Append(attempts,
                                      [product_name |-> Products[product].product_name,
                                       watermark |-> major_version,
                                       version_link |-> version_links[vi],
                                       version_root |-> version_root,
                                       build_link |-> build_link,
                                       json_link |-> json_link,
                                       data |-> data,
                                       final_build |-> final_build,
                                       rows |-> rows,
                                       outcomes |-> result.outcomes])
                         /\ run_errors' = run_errors + CountTrue(fails)
                         /\ store_errors' = store_errors + CountTrue(fails)
                         /\ j' = j + 1
                         /\ UNCHANGED <<raised, pc, product, major_version, final_releases,
                                        version_links, vi, version_root, is_final_release,
                                        build_links, i, json_links>>
    /\ UNCHANGED <<archive, run_no, watermarks, prev_watermarks, catalog0, prev_clean,
                   faults>>

\* the loop over the json links of a build ends
EndJsons ==
    /\ pc = "jsons"
    /\ j > Len(json_links)
    /\ pc' = "builds"
    /\ i' = i + 1
    /\ NoBuild
    /\ UNCHANGED <<archive, catalog, successful_inserts, product, major_version,
                   final_releases, version_links, vi, version_root, is_final_release,
                   build_links, run_no, history>>

\* the loop over the builds of a version ends
EndBuilds ==
    /\ pc = "builds"
    /\ i >= Len(build_links)
    /\ pc' = "versions"
    /\ vi' = vi + 1
    /\ NoVersion /\ NoBuild
    /\ UNCHANGED <<archive, catalog, successful_inserts, product, major_version,
                   final_releases, version_links, run_no, history>>

\* scrape_candidates returns: run calls it for the next product, or logs the
\* count and returns
EndVersions ==
    /\ pc = "versions"
    /\ vi > Len(version_links)
    /\ IF product < Len(Products)
       THEN /\ pc' = "scrape"
            /\ product' = product + 1
       ELSE /\ pc' = "done"
            /\ product' = 0
    /\ NoProduct /\ NoVersion /\ NoBuild
    /\ UNCHANGED <<archive, catalog, successful_inserts, run_no, history>>

\* a connection-level fault that run catches for each product: the walk of the
\* product is abandoned and run calls scrape_candidates for the next product
DownloadFault_caught_per_product ==
    /\ \/ pc = "scrape"
       \/ pc = "versions" /\ vi <= Len(version_links)
       \/ pc = "builds" /\ i < Len(build_links)
       \/ pc = "jsons" /\ j <= Len(json_links)
    /\ faults < MaxFaults
    /\ faults' = faults + 1
    /\ IF product < Len(Products)
       THEN /\ pc' = "scrape"
            /\ product' = product + 1
       ELSE /\ pc' = "done"
            /\ product' = 0
    /\ NoProduct /\ NoVersion /\ NoBuild
    /\ watermarks' = IF pc = "scrape" THEN Append(watermarks, None) ELSE watermarks
    /\ UNCHANGED <<archive, catalog, successful_inserts, run_no, attempts, fetched,
                   prev_watermarks, raised, catalog0, run_errors, prev_clean,
                   store_errors>>

\* session.get raises a connection-level fault in the next download of the walk
DownloadFault ==
    /\ \/ pc = "scrape"
       \/ pc = "versions" /\ vi <= Len(version_links)
       \/ pc = "builds" /\ i < Len(build_links)
       \/ pc = "jsons" /\ j <= Len(json_links)
    /\ faults < MaxFaults
    /\ faults' = faults + 1
    /\ Raise
    /\ raised' = "ConnectionError"
    /\ UNCHANGED <<archive, catalog, successful_inserts, run_no, attempts, fetched,
                   watermarks, prev_watermarks, catalog0, run_errors, prev_clean,
                   store_errors>>

Next ==
    \/ StartRun
    \/ ScrapeCandidates
    \/ VersionStep
    \/ BuildStep
    \/ JsonStep
    \/ EndJsons
    \/ EndBuilds
    \/ EndVersions
    \/ DownloadFault

Spec == Init /\ [][Next]_vars

----------------------------------------------------------------------------
(* Properties *)

AttemptIdx == 1..Len(attempts)

\* <<release_channel, version_string>> of the rows of a descriptor, in call order
ChannelAndVersion(rows) ==
    [m \in 1..Len(rows) |-> <<rows[m].release_channel, rows[m].version_string>>]

\* the build ordinal that a build directory label such as "build10/" embeds
OrdinalOfLabel(text) == int(SubSeq(text, Len(s_build) + 1, Len(text) - 1))

\* the rc version string of the build of an attempt, from the labels of the archive
RcOf(a) == a.version_root \o s_rc \o NumStr(OrdinalOfLabel(a.build_link.text))

\* C1: idempotence across runs. A run that follows a run which returned and met
\* no store error, and that meets no store error itself, adds no row to the
\* catalog, keeps its counter at 0, and has every insert resolve as duplicate.
C1_Idempotent ==
    (prev_clean /\ run_errors = 0) =>
        /\ catalog = catalog0
        /\ successful_inserts = 0
        /\ \A k \in AttemptIdx : \A m \in 1..Len(attempts[k].outcomes) :
               attempts[k].outcomes[m] = "duplicate"

\* a second run has returned after a clean first run, it applied a watermark,
\* and it attempted inserts
C1_Witness ==
    /\ pc = "done"
    /\ prev_clean
    /\ run_errors = 0
    /\ attempts # <<>>
    /\ \E k \in AttemptIdx : has_watermark(attempts[k].watermark)
    /\ catalog # {}

\* C2: a final build whose descriptor is of the release channel gets exactly
\* two inserts: (beta, rc version string) and (release, version root).
C2_FinalReleaseRows ==
    \A k \in AttemptIdx :
        LET a == attempts[k]
        IN  (a.final_build /\ a.data.release_channel = "release") =>
                ChannelAndVersion(a.rows) =
                    << <<"beta", RcOf(a)>>, <<"release", a.version_root>> >>

C2_Witness ==
    \E k \in AttemptIdx :
        /\ attempts[k].final_build
        /\ attempts[k].data.release_channel = "release"
        /\ attempts[k].outcomes = <<"inserted", "inserted">>
        /\ attempts[k].version_root = v63
        /\ attempts[k].build_link.text = s_build \o <<"1", "0", "/">>

\* C3: a build that is not final gets exactly one insert, with the rc version
\* string, in the beta channel when the descriptor says release and in the
\* channel of the descriptor otherwise; no row carries the version root.
C3_NonFinalRows ==
    \A k \in AttemptIdx :
        LET a == attempts[k]
        IN  ~a.final_build =>
                /\ ChannelAndVersion(a.rows) =
                     << << IF a.data.release_channel = "release" THEN "beta"
                           ELSE a.data.release_channel,
                           RcOf(a) >> >>
                /\ \A m \in 1..Len(a.rows) : a.rows[m].version_string # a.version_root

C3_Witness ==
    \E k \in AttemptIdx :
        /\ ~attempts[k].final_build
        /\ attempts[k].data.release_channel = "release"
        /\ attempts[k].outcomes = <<"inserted">>
        /\ attempts[k].rows[1] \in catalog

\* C4: a final build whose descriptor is not of the release channel gets
\* exactly two inserts, both in the channel of the descriptor: the version
\* root, then the rc version string.
C4_FinalOtherRows ==
    \A k \in AttemptIdx :
        LET a == attempts[k]
        IN  (a.final_build /\ a.data.release_channel # "release") =>
                ChannelAndVersion(a.rows) =
                    << <<a.data.release_channel, a.version_root>>,
                       <<a.data.release_channel, RcOf(a)>> >>

C4_Witness ==
    \E k \in AttemptIdx :
        /\ attempts[k].final_build
        /\ attempts[k].data.release_channel = "beta"
        /\ attempts[k].outcomes = <<"inserted", "inserted">>

\* the children of the directory of the archive that a path names
ChildrenAt(segs) ==
    LET found == Resolve(archive, segs)
    IN  IF found = <<>> THEN <<>> ELSE found[1].children

SegmentsOf(path) == SelectSeq(split(path, "/"), LAMBDA seg : seg # <<>>)

\* the labels of the candidate version directories of a product, in listing order
CandidateLabels(q) ==
    LET dir == s_pub \o Products[q].archive_directory \o s_candidates
    IN  Map(LAMBDA c : c.name \o Slash,
            SelectSeq(ChildrenAt(SegmentsOf(dir)), LAMBDA c : isdigit(c.name[1])))

CandidatePath(q, label) == s_pub \o Products[q].archive_directory \o s_candidates \o label

RECURSIVE DigitPrefix(_)
DigitPrefix(s) ==
    IF s = <<>> \/ ~isdigit(s[1]) THEN <<>> ELSE <<s[1]>> \o DigitPrefix(Tail(s))

\* the leading integer of a label
LeadingInteger(label) == int(DigitPrefix(label))

\* the watermark rule: no watermark, or major >= watermark - 4, or an esr label
Accepted(label, watermark) ==
    \/ watermark = None
    \/ LeadingInteger(label) >= watermark - 4
    \/ contains(label, s_esr)

\* C5: for every build directory at most one descriptor is selected, the one
\* of the first platform in listing order that yields a usable JSON link, and
\* the rows of the build come from that descriptor only.
C5_FirstMatchOnly ==
    /\ Len(json_links) <= 1
    /\ \A k \in AttemptIdx :
          /\ attempts[k].json_link =
                get_json_links(archive, attempts[k].build_link.path)[1]
          /\ \A m \in AttemptIdx :
                attempts[m].build_link.path = attempts[k].build_link.path => m = k

C7_NumericOrder ==
    /\ pc \in {"builds", "jsons"} =>
          /\ \A k \in 1..(Len(build_links) - 1) :
                OrdinalOfLabel(build_links[k].text) < OrdinalOfLabel(build_links[k + 1].text)
          /\ {build_links[k] : k \in 1..Len(build_links)} =
             LET listed == build_links_of(archive, version_links[vi])
             IN  {listed[k] : k \in 1..Len(listed)}
          /\ Len(build_links) = Len(build_links_of(archive, version_links[vi]))
    /\ \A k \in AttemptIdx : \A m \in AttemptIdx :
          (k < m /\ attempts[k].version_link.path = attempts[m].version_link.path) =>
             OrdinalOfLabel(attempts[k].build_link.text) <=
             OrdinalOfLabel(attempts[m].build_link.text)

\* build1/, build2/, build10/ were listed in another order and have all been
\* processed, in the order 1, 2, 10
C7_Witness ==
    /\ pc = "builds"
    /\ i = 3
    /\ Map(LAMBDA link : link.text, build_links) =
          << s_build \o <<"1", "/">>, s_build \o <<"2", "/">>, s_build \o <<"1", "0", "/">> >>
    /\ build_links_of(archive, version_links[vi]) # build_links
    /\ Len(attempts) = 3

\* the greatest build ordinal under the candidate version of an attempt
GreatestBuild(a) ==
    LET builds == SelectSeq(ChildrenAt(SegmentsOf(a.version_link.path)),
                            LAMBDA c : startswith(c.name, s_build))
    IN  Max({int(SubSeq(builds[k].name, Len(s_build) + 1, Len(builds[k].name))) :
                k \in 1..Len(builds)})

\* the releases directory of the product lists the version root of an attempt
Shipped(a) ==
    LET segs == SegmentsOf(a.version_link.path)
        released == ChildrenAt(<<segs[1], segs[2], SubSeq(s_releases, 2, Len(s_releases) - 1)>>)
    IN  \E k \in 1..Len(released) : released[k].name = a.version_root

\* C8: a build is final iff it has the greatest ordinal of its train and the
\* version root of the train is in the releases listing; at most one build of
\* a version is final in a run; a row with the version root comes from a
\* final build only.
C8_FinalBuild ==
    \A k \in AttemptIdx :
        LET a == attempts[k]
        IN  /\ a.final_build <=>
                 (OrdinalOfLabel(a.build_link.text) = GreatestBuild(a) /\ Shipped(a))
            /\ \A m \in AttemptIdx :
                 (attempts[m].final_build /\ a.final_build
                    /\ attempts[m].version_link.path = a.version_link.path)
                    => attempts[m].build_link = a.build_link
            /\ (\E m \in 1..Len(a.rows) : a.rows[m].version_string = a.version_root)
                 => a.final_build

\* the last of three builds of a shipped train was written as final, the
\* other two were not
C8_Witness ==
    /\ Len(attempts) = 3
    /\ attempts[3].final_build
    /\ ~attempts[1].final_build /\ ~attempts[2].final_build
    /\ attempts[3].build_link.text = s_build \o <<"1", "0", "/">>
    /\ attempts[3].version_link.path = attempts[1].version_link.path

\* C9: the catalog never holds two rows with the same (product_name,
\* release_channel, version_string), and a row once present stays present
\* with all its fields.
C9_UniqueAppendOnly ==
    /\ [](\A r1 \in catalog : \A r2 \in catalog : KeyOf(r1) = KeyOf(r2) => r1 = r2)
    /\ [][catalog \subseteq catalog']_vars

\* an insert resolved as duplicate although its row differs from the stored one
C9_Witness ==
    \E k \in AttemptIdx : \E m \in 1..Len(attempts[k].rows) :
        /\ attempts[k].outcomes[m] = "duplicate"
        /\ attempts[k].rows[m] \notin catalog
        /\ \E r \in catalog : KeyOf(r) = KeyOf(attempts[k].rows[m])

\* the number of insert_build calls of this run that succeeded
InsertedCount ==
    Cardinality({<<k, m>> \in AttemptIdx \X {1, 2} :
                    m <= Len(attempts[k].outcomes) /\ attempts[k].outcomes[m] = "inserted"})

\* C10: the counter of a run equals the number of rows that the run has added
\* to the catalog, which is the number of its inserts that succeeded.
C10_Counter ==
    /\ successful_inserts = Cardinality(catalog \ catalog0)
    /\ successful_inserts = InsertedCount

\* a run has returned after inserts that succeeded, that were duplicates and
\* that failed
C10_Witness ==
    /\ pc = "done"
    /\ successful_inserts > 0
    /\ \E k \in AttemptIdx : \E m \in 1..Len(attempts[k].outcomes) :
          attempts[k].outcomes[m] = "duplicate"
    /\ \E k \in AttemptIdx : \E m \in 1..Len(attempts[k].outcomes) :
          attempts[k].outcomes[m] = "error"

RECURSIVE Concat(_)
Concat(seqs) == IF seqs = <<>> THEN <<>> ELSE Head(seqs) \o Concat(Tail(seqs))

\* the rows that the walk of a product builds for the build at a position (from
\* 1) of the sorted builds of a version, in call order, when nothing fails
RowsOfBuild(q, version_link, builds, pos) ==
    LET links == get_json_links(archive, builds[pos].path)
        root == version_root_of(version_link)
        released == final_releases_of(archive, Products[q].archive_directory)
        final == \E n \in 1..Len(released) : released[n] = root
    IN  Concat([n \in 1..Len(links) |->
                  LET json_file == download(archive, links[n])
                  IN  IF parse_raises(links[n], json_file) THEN <<>>
                      ELSE build_rows(parse_build_info(Products[q].product_name,
                                                       links[n], json_file),
                                      root,
                                      rc_version_string_of(root, builds[pos].text),
                                      final_build_of(pos - 1, builds, final))])

RowsOfVersion(q, version_link) ==
    LET builds == sort_build_links(build_links_of(archive, version_link))
    IN  Concat([pos \in 1..Len(builds) |-> RowsOfBuild(q, version_link, builds, pos)])

\* the rows of the walk of a product that has read the given watermark
RowsOfWalk(q, watermark) ==
    LET links == filter_versions(candidate_links_of(archive, Products[q].archive_directory),
                                 watermark)
    IN  Concat([n \in 1..Len(links) |-> RowsOfVersion(q, links[n])])

\* the rows of the insert_build calls of this run so far, in call order
AttemptedRows == Concat([k \in AttemptIdx |-> attempts[k].rows])

\* C11: a store error of an insert does not abort the walk and affects no other
\* row: the step in which it happens raises nothing and goes on to the next
\* descriptor, every insert_build call for a descriptor is made whatever the
\* outcome of the calls before it, a run that returns has made the calls that
\* its walks make when no insert fails, and the rows that were in the catalog
\* or that the run inserted are in the catalog.
C11_StoreErrorIsolated ==
    /\ [](/\ \A k \in AttemptIdx :
             /\ Len(attempts[k].outcomes) = Len(attempts[k].rows)
             /\ \A m \in 1..Len(attempts[k].outcomes) :
                   attempts[k].outcomes[m] = "inserted" => attempts[k].rows[m] \in catalog
          /\ catalog0 \subseteq catalog
          /\ pc = "done" =>
                AttemptedRows =
                Concat([q \in 1..Len(Products) |-> RowsOfWalk(q, watermarks[q])]))
    /\ [][store_errors' > store_errors =>
            (pc' = "jsons" /\ j' = j + 1 /\ raised' = "none" /\ catalog \subseteq catalog')]_vars

\* the first insert for a final build failed with a store error, the sibling
\* row was inserted, and the run went on to insert rows of the next product
C11_Witness ==
    /\ pc = "done"
    /\ \E k \in AttemptIdx :
          /\ attempts[k].outcomes = <<"error", "inserted">>
          /\ attempts[k].rows[2] \in catalog
          /\ \E m \in AttemptIdx :
                /\ m > k
                /\ attempts[m].product_name # attempts[k].product_name
                /\ attempts[m].outcomes[1] = "inserted"

\* the path names a descriptor that the archive lists and whose body cannot be
\* parsed: it is not served (empty body), or is not JSON, or lacks a field
DescriptorFault(path) ==
    /\ endswith(path, s_json)
    /\ Resolve(archive, SegmentsOf(path)) # <<>>
    /\ LET body == Resolve(archive, SegmentsOf(path))[1].body
       IN  \/ body.kind # "json"
           \/ /\ "target" \notin DOMAIN body.doc
              /\ {"moz_update_channel", "moz_app_version", "buildid"} \ DOMAIN body.doc # {}

\* C12: a descriptor that cannot be fetched or parsed is a soft miss for its
\* build only: no row is attempted from it, no exception leaves the run because
\* of it, and a run that returns has walked every product.
C12_DescriptorFaultIsolated ==
    /\ \A k \in AttemptIdx : ~DescriptorFault(attempts[k].json_link)
    /\ (\E path \in fetched : DescriptorFault(path)) =>
          /\ raised \notin {"ValueError", "KeyError"}
          /\ pc # "aborted" \/ raised = "ConnectionError"
    /\ pc = "done" => Len(watermarks) = Len(Products)

\* C13 as claimed: after a connection fault during the walk of a product, the
\* run still attempts the walks of the products that come after it, so a run
\* that a connection fault has ended has started the walk of every product.
C13_FaultContained ==
    (pc = "aborted" /\ raised = "ConnectionError") => Len(watermarks) = Len(Products)

\* C13 amended: a connection fault leaves the run. The walk of the product is
\* abandoned and no later product is walked in that run; the catalog keeps the
\* rows inserted before the fault; the next step of the job is a new run that
\* starts with the first product.
C13_FaultAbortsRun ==
    /\ [](raised = "ConnectionError" => (pc = "aborted" /\ product = 0))
    /\ [][faults' > faults =>
            /\ pc' = "aborted"
            /\ raised' = "ConnectionError"
            /\ catalog' = catalog
            /\ attempts' = attempts
            /\ Len(watermarks') <= product]_vars
    /\ [][pc = "aborted" =>
            /\ pc' = "scrape"
            /\ product' = 1
            /\ run_no' = run_no + 1
            /\ catalog' = catalog]_vars

\* a connection fault has ended the run during the walk of Firefox, after rows
\* were inserted, with the other products not walked
C13_Witness ==
    /\ pc = "aborted"
    /\ raised = "ConnectionError"
    /\ Len(watermarks) = 1
    /\ catalog # catalog0
    /\ \A k \in AttemptIdx : attempts[k].product_name = Products[1].product_name

\* the name of an entry of a build directory has one of the nine substrings
\* that mark an entry as not a platform
NamedNonPlatform(name) ==
    \E mark \in { <<"b", "e", "e", "t", "m", "o", "v", "e", "r">>,
                  <<"c", "o", "n", "t", "r", "i", "b">>,
                  <<"f", "u", "n", "n", "e", "l", "c", "a", "k", "e">>,
                  <<"j", "s", "s", "h", "e", "l", "l">>,
                  <<"l", "o", "g", "s">>,
                  <<"m", "a", "r", "-", "t", "o", "o", "l", "s">>,
                  p_partner,
                  <<"s", "o", "u", "r", "c", "e">>,
                  <<"u", "p", "d", "a", "t", "e">> } : contains(name, mark)

\* the names of the files of <platform>/en-US/ that can be descriptors: they
\* end with .json and contain neither mozinfo nor test_packages
EligibleFiles(platform) ==
    LET locales == SelectSeq(platform.children,
                             LAMBDA c : c.kind = "dir" /\ c.name = SubSeq(s_enUS, 1, 5))
        files == IF locales = <<>> THEN <<>> ELSE locales[1].children
    IN  Map(LAMBDA f : f.name,
            SelectSeq(files, LAMBDA f : /\ f.kind = "file"
                                        /\ endswith(f.name, s_json)
                                        /\ ~contains(f.name, s_mozinfo)
                                        /\ ~contains(f.name, s_test_packages)))

\* the platform directories of a build directory of the archive: its
\* directories whose name has none of the nine substrings
PlatformsAt(path) ==
    SelectSeq(ChildrenAt(SegmentsOf(path)),
              LAMBDA c : c.kind = "dir" /\ ~NamedNonPlatform(c.name))

\* a build directory has a usable descriptor link
HasUsable(path) ==
    \E n \in 1..Len(PlatformsAt(path)) : EligibleFiles(PlatformsAt(path)[n]) # <<>>

IsBuildPath(path) ==
    /\ Len(SegmentsOf(path)) = 5
    /\ startswith(SegmentsOf(path)[5], s_build)

\* C14: a build directory without a usable descriptor link gets no insert, and
\* the step that finds it so raises nothing and goes on to the next build of
\* the version.
C14_MissingDescriptorSkipped ==
    /\ [](\A k \in AttemptIdx : HasUsable(attempts[k].build_link.path))
    /\ [][(/\ pc = "builds"
           /\ i < Len(build_links)
           /\ ~HasUsable(build_links[i + 1].path)
           /\ faults' = faults) =>
            /\ pc' = "builds"
            /\ i' = i + 1
            /\ attempts' = attempts
            /\ catalog' = catalog
            /\ raised' = "none"
            /\ build_links[i + 1].path \in fetched']_vars

\* a run has returned that listed a build directory without usable descriptor,
\* attempted no insert for it, and inserted rows of a build that comes later
C14_Witness ==
    /\ pc = "done"
    /\ \E path \in fetched :
          /\ IsBuildPath(path)
          /\ ~HasUsable(path)
          /\ ChildrenAt(SegmentsOf(path)) # <<>>
          /\ \A k \in AttemptIdx : attempts[k].build_link.path # path
    /\ \E k \in AttemptIdx : /\ attempts[k].product_name = Products[3].product_name
                             /\ attempts[k].outcomes[1] = "inserted"

\* the path is under an entry of its build directory that is not a platform:
\* the label of the entry has one of the nine substrings, or the entry is a
\* file (its label does not end with "/")
UnderNonPlatform(path) ==
    LET segs == SegmentsOf(path)
        entries == ChildrenAt(SubSeq(segs, 1, 5))
    IN  /\ Len(segs) >= 6
        /\ startswith(segs[5], s_build)
        /\ \/ NamedNonPlatform(segs[6])
           \/ \E n \in 1..Len(entries) :
                 entries[n].kind = "file" /\ startswith(segs[6], entries[n].name)

\* C15: nothing is fetched under an entry of a build directory that has one of
\* the nine substrings or whose label does not end with "/", and no descriptor
\* and no row comes from such an entry.
C15_PlatformExclusion ==
    /\ \A path \in fetched : ~UnderNonPlatform(path)
    /\ \A n \in 1..Len(json_links) : ~UnderNonPlatform(json_links[n])
    /\ \A k \in AttemptIdx :
          /\ ~UnderNonPlatform(attempts[k].json_link)
          /\ \A m \in 1..Len(attempts[k].rows) :
                ~UnderNonPlatform(SubSeq(attempts[k].rows[m].archive_url, Len(Origin) + 1,
                                         Len(attempts[k].rows[m].archive_url)))

\* a build directory that lists the nine kinds of excluded directories, each
\* with a descriptor, and a file was walked, and the row of its one platform
\* was inserted
C15_Witness ==
    \E k \in AttemptIdx :
        LET entries == ChildrenAt(SegmentsOf(attempts[k].build_link.path))
        IN  /\ \A d \in 1..Len(NonPlatformDirs) :
                  \E n \in 1..Len(entries) :
                      /\ entries[n].name = NonPlatformDirs[d]
                      /\ EligibleFiles(entries[n]) # <<>>
            /\ \E n \in 1..Len(entries) : entries[n].kind = "file"
            /\ attempts[k].outcomes[1] = "inserted"
            /\ Len(get_json_links(archive, attempts[k].build_link.path)) = 1

\* the JSON object that the archive holds at a path
DocAt(path) == Resolve(archive, SegmentsOf(path))[1].body.doc

\* the version and the build id that a descriptor states, in either schema
VersionOfDoc(doc) ==
    IF "target" \in DOMAIN doc THEN doc.target.version ELSE doc.moz_app_version

BuildIdOfDoc(doc) ==
    IF "build" \in DOMAIN doc THEN doc.build.id ELSE doc.buildid

\* a row without its release_channel and version_string
OtherFields(row) ==
    [product_name |-> row.product_name,
     major_version |-> row.major_version,
     release_version |-> row.release_version,
     build_id |-> row.build_id,
     archive_url |-> row.archive_url]

\* C16: every row carries the name of the product whose directory was walked
\* and the release version, its leading integer as major version, and the
\* build id of the descriptor, with the url of the descriptor as archive_url;
\* the rows of one descriptor differ in release_channel and version_string
\* only.
C16_FieldsCopied ==
    \A k \in AttemptIdx : \A m \in 1..Len(attempts[k].rows) :
        LET a == attempts[k]
            row == a.rows[m]
            doc == DocAt(a.json_link)
        IN  /\ row.product_name = a.product_name
            /\ \E q \in 1..Len(Products) :
                  /\ Products[q].product_name = row.product_name
                  /\ SegmentsOf(a.json_link)[2] = Products[q].archive_directory
            /\ row.release_version = VersionOfDoc(doc)
            /\ row.major_version = LeadingInteger(VersionOfDoc(doc))
            /\ row.build_id = BuildIdOfDoc(doc)
            /\ row.archive_url = Origin \o a.json_link
            /\ \A n \in 1..Len(a.rows) : OtherFields(a.rows[n]) = OtherFields(row)

\* the two rows of a final release build, built from a buildhub descriptor,
\* were inserted and differ in channel and version string, and a row of Fennec
\* was inserted from a legacy descriptor
C16_Witness ==
    /\ \E k \in AttemptIdx :
          /\ attempts[k].outcomes = <<"inserted", "inserted">>
          /\ "target" \in DOMAIN DocAt(attempts[k].json_link)
          /\ attempts[k].rows[1].release_channel # attempts[k].rows[2].release_channel
          /\ attempts[k].rows[1].version_string # attempts[k].rows[2].version_string
          /\ attempts[k].product_name = Products[1].product_name
    /\ \E k \in AttemptIdx :
          /\ attempts[k].product_name = Products[3].product_name
          /\ "target" \notin DOMAIN DocAt(attempts[k].json_link)
          /\ attempts[k].rows[1] \in catalog

\* the unique keys of the rows of a catalog
Keys(cat) == {KeyOf(r) : r \in cat}

\* the rows of the builds of the candidate versions of a product whose label
\* the watermark rule accepts
RowsOfAccepted(q, watermark) ==
    LET links == SelectSeq(candidate_links_of(archive, Products[q].archive_directory),
                           LAMBDA link : Accepted(link.text, watermark))
    IN  Concat([n \in 1..Len(links) |-> RowsOfVersion(q, links[n])])

PlatformOfLink(link) == Resolve(archive, SubSeq(SegmentsOf(link), 1, 6))[1]

FileOfLink(link) == SegmentsOf(link)[Len(SegmentsOf(link))]

\* the link is the one that the selection rule picks in its platform: an
\* eligible file, the first one that ends with buildhub.json when there is
\* one, the first eligible file otherwise
RightlySelected(link) ==
    LET eligible == EligibleFiles(PlatformOfLink(link))
        consolidated == SelectSeq(eligible, LAMBDA name : endswith(name, s_buildhub_json))
    IN  /\ Len(SegmentsOf(link)) = 8
        /\ eligible # <<>>
        /\ FileOfLink(link) = IF consolidated # <<>> THEN consolidated[1] ELSE eligible[1]

\* the fields of data are those that the consolidated schema reads
ReadAsConsolidated(data, doc) ==
    /\ {"target", "build"} \subseteq DOMAIN doc
    /\ data.release_channel = doc.target.channel
    /\ data.release_version = doc.target.version
    /\ data.build_id = doc.build.id

\* the fields of data are those that the legacy schema reads
ReadAsLegacy(data, doc) ==
    /\ {"moz_update_channel", "moz_app_version", "buildid"} \subseteq DOMAIN doc
    /\ data.release_channel = doc.moz_update_channel
    /\ data.release_version = doc.moz_app_version
    /\ data.build_id = doc.buildid

SegmentsOfRow(row) ==
    SegmentsOf(SubSeq(row.archive_url, Len(Origin) + 1, Len(row.archive_url)))

\* the ordinals of the build directories under a candidate version directory
OrdinalsUnder(segs) ==
    LET builds == SelectSeq(ChildrenAt(segs), LAMBDA c : startswith(c.name, s_build))
    IN  {int(SubSeq(builds[n].name, Len(s_build) + 1, Len(builds[n].name))) :
            n \in 1..Len(builds)}

\* C19: a row of the release channel has as version string the version root
\* of its train, without rc suffix; the releases directory of the product
\* lists that version root; and the row comes from the build of the train
\* with the greatest ordinal.
C19_ReleaseRowsShipped ==
    \A row \in catalog :
        row.release_channel = "release" =>
            LET segs == SegmentsOfRow(row)
                released == ChildrenAt(<<segs[1], segs[2],
                                         SubSeq(s_releases, 2, Len(s_releases) - 1)>>)
            IN  /\ ~contains(row.version_string, s_rc)
                /\ segs[4] = row.version_string \o s_candidates_suffix
                /\ \E n \in 1..Len(released) : released[n].name = row.version_string
                /\ int(SubSeq(segs[5], Len(s_build) + 1, Len(segs[5]))) =
                      Max(OrdinalsUnder(SubSeq(segs, 1, 4)))

\* the catalog has the release row of 63.0 from build10 and the beta rc rows
\* of the three builds of the train
C19_Witness ==
    /\ \E row \in catalog :
          /\ row.release_channel = "release"
          /\ row.version_string = v63
          /\ SegmentsOfRow(row)[5] = s_build \o <<"1", "0">>
    /\ \A n \in {1, 2, 10} :
          \E row \in catalog :
              /\ row.release_channel = "beta"
              /\ row.version_string = v63 \o s_rc \o NumStr(n)

\* the greatest major version of the rows of a product in a catalog, None
\* when the product has no row
GreatestMajor(cat, name) ==
    IF \A r \in cat : r.product_name # name THEN None
    ELSE CHOOSE n \in {r.major_version : r \in cat} :
            /\ \E r \in cat : r.product_name = name /\ r.major_version = n
            /\ \A r \in cat : r.product_name = name => r.major_version <= n

Walking == {"versions", "builds", "jsons"}

\* C20: the watermark of a product walk is the greatest major version that the
\* rows of that product had when the run started: the rows that the run has
\* inserted for the products before it, and the rows that the walk inserts,
\* do not change it. The walk keeps its watermark and its list of versions
\* until it ends, and the watermark that a run reads for a product is not
\* below the one that the run before it read.
C20_WatermarkStable ==
    /\ [](/\ \A q \in 1..Len(watermarks) :
                watermarks[q] = GreatestMajor(catalog0, Products[q].product_name)
          /\ pc \in Walking => (Len(watermarks) = product /\ major_version = watermarks[product])
          /\ \A q \in 1..Len(watermarks) :
                q <= Len(prev_watermarks) => watermarks[q] >= prev_watermarks[q])
    /\ [][(pc \in Walking /\ pc' \in Walking) =>
            /\ product' = product
            /\ major_version' = major_version
            /\ version_links' = version_links
            /\ watermarks' = watermarks]_vars

\* a second run has returned whose walk of Firefox read the watermark 59 and
\* inserted rows of the major version 63, after which the walk of Fennec read
\* another watermark
C20_Witness ==
    /\ pc = "done"
    /\ run_no = 2
    /\ has_watermark(watermarks[1])
    /\ \E row \in catalog \ catalog0 :
          /\ row.product_name = Products[1].product_name
          /\ row.major_version > watermarks[1]
    /\ \E k \in AttemptIdx : /\ attempts[k].product_name = Products[1].product_name
                             /\ attempts[k].data.major_version = watermarks[1]
    /\ watermarks[3] # watermarks[1]

====
